---- MODULE Spec2Model ----
(***************************************************************************)
(* Model of cs_dump.py: the output-path resolver                           *)
(* (get_unique_output_filename), the collector (collect_source_files) and  *)
(* the command-line entry point.                                           *)
(*                                                                         *)
(* A Python str is a sequence of one-character strings; a path is such a   *)
(* sequence, relative to the current directory, with "/" as separator      *)
(* (posixpath).  The empty sequence is the current directory.              *)
(***************************************************************************)
EXTENDS Integers, Sequences, FiniteSets, TLC

\* ------------------------------------------------------------------------
\* Characters
\* ------------------------------------------------------------------------
UpperCase ==
  <<"A","B","C","D","E","F","G","H","I","J","K","L","M",
    "N","O","P","Q","R","S","T","U","V","W","X","Y","Z">>

LowerCase ==
  <<"a","b","c","d","e","f","g","h","i","j","k","l","m",
    "n","o","p","q","r","s","t","u","v","w","x","y","z">>

DigitChars ==
  <<"0","1","2","3","4","5","6","7","8","9">>

Range(s) ==
  {s[i] : i \in 1..Len(s)}

IndexOf(s, c) ==
  CHOOSE i \in 1..Len(s) : s[i] = c

UpperSet ==
  Range(UpperCase)

\* the code points of the characters of the model
OrdTable ==
  [ c \in UpperSet |-> 64 + IndexOf(UpperCase, c) ]
    @@ [ c \in Range(LowerCase) |-> 96 + IndexOf(LowerCase, c) ]
    @@ [ c \in Range(DigitChars) |-> 47 + IndexOf(DigitChars, c) ]
    @@ [ c \in {"\n"} |-> 10 ] @@ [ c \in {" "} |-> 32 ] @@ [ c \in {"-"} |-> 45 ]
    @@ [ c \in {"."} |-> 46 ] @@ [ c \in {"/"} |-> 47 ] @@ [ c \in {":"} |-> 58 ]
    @@ [ c \in {"_"} |-> 95 ]

\* ord(c): the code point of a character
Ord(c) ==
  OrdTable[c]

\* the lower-case letter of every upper-case letter
LowerTable ==
  [ c \in UpperSet |-> LowerCase[IndexOf(UpperCase, c)] ]

\* str.lower() on one character
LowerChar(c) ==
  IF c \in UpperSet THEN LowerTable[c] ELSE c

\* str.lower()
lower(s) ==
  [i \in 1..Len(s) |-> LowerChar(s[i])]

\* str.startswith(prefix)
startswith(s, prefix) ==
  /\ Len(prefix) <= Len(s)
  /\ SubSeq(s, 1, Len(prefix)) = prefix

\* str.endswith(suffix) for one suffix
EndsWithOne(s, suffix) ==
  /\ Len(suffix) <= Len(s)
  /\ SubSeq(s, Len(s) - Len(suffix) + 1, Len(s)) = suffix

\* str.endswith(tuple of suffixes)
endswith(s, suffixes) ==
  \E k \in 1..Len(suffixes) : EndsWithOne(s, suffixes[k])

\* '-' * n
Dashes(n) ==
  [i \in 1..n |-> "-"]

\* str < str: lexicographic comparison by code point
RECURSIVE StrLess(_, _)
StrLess(a, b) ==
  IF b = <<>> THEN FALSE
  ELSE IF a = <<>> THEN TRUE
  ELSE IF Ord(a[1]) # Ord(b[1]) THEN Ord(a[1]) < Ord(b[1])
  ELSE StrLess(Tail(a), Tail(b))

\* insertion of one name into an ascending list
RECURSIVE InsertSorted(_, _)
InsertSorted(x, s) ==
  IF s = <<>> THEN <<x>>
  ELSE IF StrLess(s[1], x) THEN <<s[1]>> \o InsertSorted(x, Tail(s))
  ELSE <<x>> \o s

\* list.sort() on a list of str
RECURSIVE SortNames(_)
SortNames(s) ==
  IF s = <<>> THEN <<>>
  ELSE InsertSorted(s[1], SortNames(Tail(s)))

\* ------------------------------------------------------------------------
\* os.path (posixpath)
\* ------------------------------------------------------------------------
\* p.rfind(c) + 1 : the 1-based index of the last c in p, 0 when absent
RFind(p, c) ==
  IF \E i \in 1..Len(p) : p[i] = c
  THEN CHOOSE i \in 1..Len(p) : p[i] = c /\ \A j \in (i+1)..Len(p) : p[j] # c
  ELSE 0

\* head.rstrip('/')
RECURSIVE RStripSep(_)
RStripSep(h) ==
  IF h # <<>> /\ h[Len(h)] = "/" THEN RStripSep(SubSeq(h, 1, Len(h) - 1)) ELSE h

\* os.path.dirname
dirname(p) ==
  LET head == SubSeq(p, 1, RFind(p, "/"))
  IN  IF head # <<>> /\ head # [i \in 1..Len(head) |-> "/"]
      THEN RStripSep(head) ELSE head

\* os.path.basename
basename(p) ==
  SubSeq(p, RFind(p, "/") + 1, Len(p))

\* os.path.splitext: <<root, ext>>; leading dots of the last component do
\* not start an extension
splitext(p) ==
  LET sepIndex == RFind(p, "/")
      dotIndex == RFind(p, ".")
  IN  IF /\ dotIndex > sepIndex
         /\ \E k \in (sepIndex + 1)..(dotIndex - 1) : p[k] # "."
      THEN <<SubSeq(p, 1, dotIndex - 1), SubSeq(p, dotIndex, Len(p))>>
      ELSE <<p, <<>> >>

\* os.path.join(a, b) for a relative b
join(a, b) ==
  IF a = <<>> THEN b
  ELSE IF a[Len(a)] = "/" THEN a \o b
  ELSE a \o <<"/">> \o b

\* path.split('/') without the empty and '.' components
RECURSIVE Components(_)
Components(p) ==
  IF p = <<>> THEN <<>>
  ELSE LET i == RFind(p, "/")
           last == SubSeq(p, i + 1, Len(p))
           rest == Components(SubSeq(p, 1, i - 1))
       IN  IF last = <<>> \/ last = <<".">> THEN rest ELSE Append(rest, last)

\* '/'.join(parts)
RECURSIVE JoinComponents(_)
JoinComponents(parts) ==
  IF parts = <<>> THEN <<>>
  ELSE IF Len(parts) = 1 THEN parts[1]
  ELSE parts[1] \o <<"/">> \o JoinComponents(Tail(parts))

\* length of the common prefix of two component lists
RECURSIVE CommonLen(_, _)
CommonLen(a, b) ==
  IF a = <<>> \/ b = <<>> \/ a[1] # b[1] THEN 0
  ELSE 1 + CommonLen(Tail(a), Tail(b))

\* os.path.relpath(path, start), both relative to the current directory
relpath(path, start) ==
  LET pl == Components(path)
      sl == Components(start)
      i == CommonLen(sl, pl)
      rel == [k \in 1..(Len(sl) - i) |-> <<".", ".">>]
               \o SubSeq(pl, i + 1, Len(pl))
  IN  IF rel = <<>> THEN <<".">> ELSE JoinComponents(rel)

\* ------------------------------------------------------------------------
\* Configuration of the script
\* ------------------------------------------------------------------------
ALLOWED_EXTENSIONS ==
  << <<".","c","s">>,
     <<".","x","a","m","l">>,
     <<".","c","s","p","r","o","j">>,
     <<".","s","l","n">>,
     <<".","j","s","o","n">> >>

EXCLUDED_FOLDERS ==
  { <<"b","i","n">>, <<"o","b","j">> }

\* ------------------------------------------------------------------------
\* The resolver's pure part
\* ------------------------------------------------------------------------
DigitSet ==
  Range(DigitChars)

\* \d on the characters of the model
IsDigit(c) ==
  c \in DigitSet

\* int(s) for a string of decimal digits
RECURSIVE int(_)
int(s) ==
  IF s = <<>> THEN 0
  ELSE 10 * int(SubSeq(s, 1, Len(s) - 1)) + (IndexOf(DigitChars, s[Len(s)]) - 1)

\* str(n) for n >= 0
RECURSIVE str(_)
str(n) ==
  IF n < 10 THEN <<DigitChars[n + 1]>>
  ELSE str(n \div 10) \o <<DigitChars[(n % 10) + 1]>>

\* what '$' accepts after the literal extension: the end of the string, or a
\* single newline that ends the string
DollarTails ==
  { <<>>, <<"\n">> }

\* re.compile("^" + escape(stem) + "_(\d+)" + escape(ext) + "$").match(filename):
\* the set holding group(1) when the name matches, the empty set otherwise
PatternMatch(base_filename, ext, filename) ==
  LET pre == base_filename \o <<"_">>
      n == Len(pre)
  IN  { SubSeq(filename, n + 1, n + k) : k \in
          { k \in 1..(Len(filename) - n) :
              /\ startswith(filename, pre)
              /\ \A i \in (n + 1)..(n + k) : IsDigit(filename[i])
              /\ \E tail \in DollarTails :
                   SubSeq(filename, n + k + 1, Len(filename)) = ext \o tail } }

\* the loop over os.listdir: the highest number among the matching names,
\* starting from 0
HighestNum(base_filename, ext, names) ==
  LET nums == {0} \cup
        { int(g) : g \in UNION { PatternMatch(base_filename, ext, f) : f \in names } }
  IN  CHOOSE m \in nums : \A x \in nums : x <= m

\* variant: the highest number is reused instead of incremented
NewNumberReused(highest_num) ==
  highest_num

\* new_number = highest_num + 1
NewNumber(highest_num) ==
  highest_num + 1

\* f"{base_filename}_{new_number}{ext}"
NewFilename(base_filename, ext, names) ==
  base_filename \o <<"_">> \o str(NewNumber(HighestNum(base_filename, ext, names))) \o ext

\* base_filename of a base path
BaseFilename(base_path) ==
  splitext(basename(base_path))[1]

\* ext of a base path
Ext(base_path) ==
  splitext(basename(base_path))[2]

\* the directory listed: directory if directory else '.'
ListDirOf(base_path) ==
  IF dirname(base_path) # <<>> THEN dirname(base_path) ELSE <<".">>

\* get_unique_output_filename, given the names os.listdir returned
get_unique_output_filename(base_path, names) ==
  join(dirname(base_path),
       NewFilename(BaseFilename(base_path), Ext(base_path), names))

\* ------------------------------------------------------------------------
\* The files and directories of the model
\* ------------------------------------------------------------------------
MaxRuns ==
  2

MaxDumpNames ==
  3

\* sys.argv[0]
Script ==
  <<"c","s","_","d","u","m","p",".","p","y">>

InputDir ==
  <<"p">>

DumpDir ==
  <<"d">>

\* candidate files of the input tree
TreeFiles ==
  { <<"p","/","a",".","c","s">>,
    <<"p","/","A",".","C","S">>,
    <<"p","/","b",".","t","x","t">>,
    <<"p","/","b","i","n","/","c",".","c","s">>,
    <<"p","/",".","h","i","d","d","e","n","/","d",".","c","s">>,
    <<"p","/","s","/","e",".","c","s">>,
    <<"p","/","s","/","O","b","j","/","c",".","c","s">>,
    <<"p","/","b","i","n","/","s","/","c",".","c","s">>,
    <<"p","/","t","/","f",".","X","a","m","l">> }

\* the directories of the input tree
TreeDirs ==
  { <<"p">>,
    <<"p","/","b","i","n">>,
    <<"p","/",".","h","i","d","d","e","n">>,
    <<"p","/","s">>,
    <<"p","/","s","/","O","b","j">>,
    <<"p","/","b","i","n","/","s">>,
    <<"p","/","t">> }

\* candidate files whose bytes are not valid UTF-8
BinaryFiles ==
  { <<"p","/","a",".","c","s">> }

\* candidate names in the directory of the dumps
DumpNames ==
  { <<"o","u","t","_","1",".","t","x","t">>,
    <<"o","u","t","_","3",".","t","x","t">>,
    <<"o","u","t","_","0","0","7",".","t","x","t">>,
    <<"o","u","t","_","1","2",".","t","x","t">>,
    <<"o","u","t","_","1","x",".","t","x","t">>,
    <<"o","t","h","e","r","_","1",".","t","x","t">>,
    <<"o","u","t","_","1",".","T","X","T">>,
    <<"o","u","t","_","5",".","t","x","t","\n">>,
    <<"o","u","t","_",".","t","x","t">>,
    <<"x","o","u","t","_","9",".","t","x","t">> }

\* candidate files of the current directory
CwdFiles ==
  { <<"o","u","t","_","2",".","t","x","t">> }

\* the tree of the resolver-oriented initial states
SmallTree ==
  { <<"p","/","a",".","c","s">>,
    <<"p","/","b",".","t","x","t">>,
    <<"p","/","b","i","n","/","c",".","c","s">> }

OutTxt ==
  <<"d","/","o","u","t",".","t","x","t">>

\* the command lines that end in the entry point
FailingArgvs ==
  { <<Script>>,
    <<Script, <<"p">> >>,
    <<Script, <<"p">>, OutTxt, <<"x">> >>,
    <<Script, <<"n">>, OutTxt >>,
    <<Script, <<"p","/","b",".","t","x","t">>, OutTxt >> }

\* the command line of the initial states that vary the input tree: a base
\* path in a directory that does not exist yet
TreeArgvs ==
  { <<Script, <<"p">>, OutTxt >> }

\* the command line with a base path inside the input tree
InTreeArgvs ==
  { <<Script, <<"p">>, <<"p","/","d","u","m","p",".","j","s","o","n">> >> }

\* candidate files of the input tree when the base path lies inside it
InTreeFiles ==
  { <<"p","/","a",".","c","s">>,
    <<"p","/","A",".","C","S">>,
    <<"p","/","b","i","n","/","c",".","c","s">>,
    <<"p","/","s","/","e",".","c","s">> }

\* the command lines of the initial states that vary the dump directory: a
\* base path in it, and one with an empty directory part
DumpArgvs ==
  { <<Script, <<"p">>, OutTxt >>,
    <<Script, <<"p">>, <<"o","u","t",".","t","x","t">> >> }

UsageLine ==
  "Usage: python cs_dump.py <input_folder> <output_file>"

ExampleLine ==
  "Example: python cs_dump.py C:\\Projects\\MyWpfApp C:\\Dumps\\output.txt"

NotFoundLine ==
  "Error: Input folder '{input_folder}' not found."

DoneLine ==
  "Done. Output written to {unique_output_file}"

ReadErrorLine ==
  "Error reading file: {e}"

\* ------------------------------------------------------------------------
\* State
\* ------------------------------------------------------------------------
VARIABLES
  dirs,                \* the directories that exist (paths)
  files,               \* the files that exist: path -> content
  undecodable,         \* the files whose reading raises
  argv,                \* sys.argv
  pc,                  \* "main", "walk" (inside the with block), "exit"
  exit_code,           \* the process's exit status once pc = "exit"
  stdout,              \* the lines printed by the current run
  unique_output_file,  \* collect_source_files' local; <<>> before it is set
  stack,               \* os.walk: the directories still to visit
  root,                \* os.walk: the directory being visited
  pending,             \* the sorted files of root not yet handled
  run,                 \* the number of the current invocation
  resolved             \* per resolver call: the names listed and the result

vars ==
  <<dirs, files, undecodable, argv, pc, exit_code, stdout,
    unique_output_file, stack, root, pending, run, resolved>>

\* the content of a source file: one chunk of raw text, named by its path
RawContent(path) ==
  << [raw |-> path] >>

\* os.path.normpath for the relative paths of the model
Norm(path) ==
  JoinComponents(Components(path))

\* variant: os.path.exists in place of os.path.isdir
isdirOrFile(path) ==
  Norm(path) \in dirs \cup DOMAIN files

\* os.path.isdir
isdir(path) ==
  Norm(path) \in dirs

\* os.path.exists
exists(path) ==
  Norm(path) \in dirs \cup DOMAIN files

\* os.makedirs: the directory and its missing parents
MakeDirs(path) ==
  { JoinComponents(SubSeq(Components(path), 1, k)) : k \in 1..Len(Components(path)) }

\* os.listdir in a file system with directories ds and files fs
ListDir(path, ds, fs) ==
  { basename(q) : q \in { q \in ds \cup fs : q # <<>> /\ dirname(q) = Norm(path) } }

\* every order in which a directory listing can return a set of names
RECURSIVE Orders(_)
Orders(S) ==
  IF S = {} THEN { <<>> }
  ELSE UNION { { <<x>> \o o : o \in Orders(S \ {x}) } : x \in S }

InitFs(tree, dump, dumpExists, cwd, bin) ==
  /\ dirs = TreeDirs \cup { <<>> } \cup (IF dumpExists THEN { DumpDir } ELSE {})
  /\ files = [ q \in tree \cup { join(DumpDir, n) : n \in dump } \cup cwd
                 |-> RawContent(q) ]
  /\ undecodable = bin

Init ==
  /\ \/ \E tree \in SUBSET TreeFiles, bin \in SUBSET BinaryFiles :
          /\ bin \subseteq tree
          /\ InitFs(tree, {}, FALSE, {}, bin)
          /\ argv \in TreeArgvs
     \/ \E tree \in SUBSET InTreeFiles, bin \in SUBSET BinaryFiles :
          /\ bin \subseteq tree
          /\ InitFs(tree, {}, FALSE, {}, bin)
          /\ argv \in InTreeArgvs
     \/ \E dump \in SUBSET DumpNames, cwd \in SUBSET CwdFiles :
          /\ Cardinality(dump) <= MaxDumpNames
          /\ InitFs(SmallTree, dump, TRUE, cwd, {})
          /\ argv \in DumpArgvs
     \/ \E dumpExists \in BOOLEAN :
          /\ InitFs(SmallTree, {}, dumpExists, {}, {})
          /\ argv \in FailingArgvs
  /\ pc = "main"
  /\ exit_code = 0
  /\ stdout = <<>>
  /\ unique_output_file = <<>>
  /\ stack = <<>>
  /\ root = <<>>
  /\ pending = <<>>
  /\ run = 1
  /\ resolved = <<>>

\* ------------------------------------------------------------------------
\* The collector's pure part
\* ------------------------------------------------------------------------
\* variant: the excluded names are compared without lower-casing
KeepDirCaseSensitive(d) ==
  /\ d \notin EXCLUDED_FOLDERS
  /\ ~startswith(d, <<".">>)

\* the filter of dirs[:]: d.lower() not in EXCLUDED_FOLDERS and not d.startswith('.')
KeepDir(d) ==
  /\ lower(d) \notin EXCLUDED_FOLDERS
  /\ ~startswith(d, <<".">>)

\* filename.lower().endswith(ALLOWED_EXTENSIONS)
Qualifies(filename) ==
  endswith(lower(filename), ALLOWED_EXTENSIONS)

\* variant: the files are left in the order of the listing
UnsortedFiles(listing) ==
  listing

\* files.sort()
SortedFiles(listing) ==
  SortNames(listing)

\* f"{'-'*20} File: {rel_path} {'-'*20}"
Banner1(rel_path) ==
  Dashes(20) \o <<" ","F","i","l","e",":"," ">> \o rel_path \o <<" ">> \o Dashes(20)

\* variant: the second banner line is one dash short
Banner2Short(rel_path) ==
  Dashes(47 + Len(rel_path))

\* '-' * (48 + len(rel_path))
Banner2(rel_path) ==
  Dashes(48 + Len(rel_path))

\* the names of the sub-directories os.walk finds in top
SubDirs(top) ==
  { basename(q) : q \in { q \in dirs : q # <<>> /\ dirname(q) = Norm(top) } }

\* variant: the output file of the run is left out of the listing
NonDirsButOutput(top) ==
  { basename(q) : q \in { q \in DOMAIN files :
      dirname(q) = Norm(top) /\ q # Norm(unique_output_file) } }

\* the names of the files os.walk finds in top; nothing is left out, the
\* output file that is open for writing included
NonDirs(top) ==
  { basename(q) : q \in { q \in DOMAIN files : dirname(q) = Norm(top) } }

\* what infile.read() can return: the content of the file; for the output
\* file itself, which is still open for writing, the blocks flushed so far
ReadResults(file_path) ==
  IF Norm(file_path) = Norm(unique_output_file)
  THEN { SubSeq(files[Norm(file_path)], 1, k) : k \in 0..Len(files[Norm(file_path)]) }
  ELSE { files[Norm(file_path)] }

\* variant: the except branch writes nothing
ErrorBodyDropped ==
  <<>>

\* the except branch: the body is the one line "Error reading file: {e}"
ErrorBody ==
  << [line |-> ReadErrorLine] >>

\* one block of the output: the two banner lines and the body
Block(rel_path, failed, text) ==
  [ banner1 |-> Banner1(rel_path),
    banner2 |-> Banner2(rel_path),
    text |-> IF failed THEN ErrorBody ELSE text ]

\* variant: only too few arguments are rejected
TooFewArgs ==
  Len(argv) < 3

\* len(sys.argv) != 3
WrongArgCount ==
  Len(argv) # 3

\* ------------------------------------------------------------------------
\* The entry point
\* ------------------------------------------------------------------------
\* the wrong number of arguments: the usage and the example are printed and
\* the script ends
MainUsage ==
  /\ pc = "main"
  /\ WrongArgCount
  /\ stdout' = stdout \o << [text |-> UsageLine, arg |-> <<>>],
                            [text |-> ExampleLine, arg |-> <<>>] >>
  /\ pc' = "exit"
  /\ exit_code' = 0
  /\ UNCHANGED <<dirs, files, undecodable, argv, unique_output_file,
                 stack, root, pending, run, resolved>>

\* the input folder is no directory: sys.exit(1)
MainNotDir ==
  /\ pc = "main"
  /\ ~WrongArgCount
  /\ ~isdir(argv[2])
  /\ stdout' = Append(stdout, [text |-> NotFoundLine, arg |-> argv[2]])
  /\ pc' = "exit"
  /\ exit_code' = 1
  /\ UNCHANGED <<dirs, files, undecodable, argv, unique_output_file,
                 stack, root, pending, run, resolved>>

\* collect_source_files up to the start of the walk: the resolver creates the
\* directory, lists it and computes the name; the output file is opened 'w'
\* (created or truncated) and os.walk(input_dir) is set up
MainCollect ==
  /\ pc = "main"
  /\ ~WrongArgCount
  /\ isdir(argv[2])
  /\ LET base_path == argv[3]
         directory == dirname(base_path)
         made == IF directory # <<>> /\ ~exists(directory)
                 THEN MakeDirs(directory) ELSE {}
         names == ListDir(ListDirOf(base_path), dirs \cup made, DOMAIN files)
         out == get_unique_output_filename(base_path, names)
     IN  /\ Norm(directory) \notin DOMAIN files
         /\ dirs' = dirs \cup made
         /\ resolved' = Append(resolved, [names |-> names, out |-> out])
         /\ unique_output_file' = out
         /\ files' = [ q \in DOMAIN files \cup { Norm(out) } |->
                         IF q = Norm(out) THEN <<>> ELSE files[q] ]
         /\ undecodable' = undecodable \ { Norm(out) }
         /\ stack' = << argv[2] >>
  /\ root' = <<>>
  /\ pending' = <<>>
  /\ pc' = "walk"
  /\ UNCHANGED <<argv, exit_code, stdout, run>>

\* ------------------------------------------------------------------------
\* The walk
\* ------------------------------------------------------------------------
\* one iteration of os.walk: the next directory is listed (in any order),
\* its sub-directories are filtered and its files sorted
WalkDir ==
  /\ pc = "walk"
  /\ pending = <<>>
  /\ stack # <<>>
  /\ LET top == Head(stack)
         keptLists == { SelectSeq(ds, KeepDir) : ds \in Orders(SubDirs(top)) }
         fileLists == { SortedFiles(fs) : fs \in Orders(NonDirs(top)) }
     IN  \E kept \in keptLists, sorted \in fileLists :
           /\ root' = top
           /\ pending' = sorted
           /\ stack' = [ i \in 1..Len(kept) |-> join(top, kept[i]) ] \o Tail(stack)
  /\ UNCHANGED <<dirs, files, undecodable, argv, pc, exit_code, stdout,
                 unique_output_file, run, resolved>>

\* a file without an allowed extension is passed over
SkipFile ==
  /\ pc = "walk"
  /\ pending # <<>>
  /\ ~Qualifies(Head(pending))
  /\ pending' = Tail(pending)
  /\ UNCHANGED <<dirs, files, undecodable, argv, pc, exit_code, stdout,
                 unique_output_file, stack, root, run, resolved>>

\* a file with an allowed extension: the banner, then its content or, when
\* reading it raises, the error line
EmitBlock ==
  /\ pc = "walk"
  /\ pending # <<>>
  /\ Qualifies(Head(pending))
  /\ LET file_path == join(root, Head(pending))
         rel_path == relpath(file_path, argv[2])
         failed == Norm(file_path) \in undecodable
         out == Norm(unique_output_file)
     IN  \E text \in ReadResults(file_path) :
           files' = [files EXCEPT ![out] = Append(@, Block(rel_path, failed, text))]
  /\ pending' = Tail(pending)
  /\ UNCHANGED <<dirs, undecodable, argv, pc, exit_code, stdout,
                 unique_output_file, stack, root, run, resolved>>

\* the walk is over: the output file is closed and the confirmation printed
Finish ==
  /\ pc = "walk"
  /\ pending = <<>>
  /\ stack = <<>>
  /\ stdout' = Append(stdout, [text |-> DoneLine, arg |-> unique_output_file])
  /\ pc' = "exit"
  /\ exit_code' = 0
  /\ UNCHANGED <<dirs, files, undecodable, argv, unique_output_file,
                 stack, root, pending, run, resolved>>

\* the same command line is run again
NextRun ==
  /\ pc = "exit"
  /\ run < MaxRuns
  /\ run' = run + 1
  /\ pc' = "main"
  /\ exit_code' = 0
  /\ stdout' = <<>>
  /\ unique_output_file' = <<>>
  /\ root' = <<>>
  /\ UNCHANGED <<dirs, files, undecodable, argv, stack, pending, resolved>>

Next ==
  \/ MainUsage
  \/ MainNotDir
  \/ MainCollect
  \/ WalkDir
  \/ SkipFile
  \/ EmitBlock
  \/ Finish
  \/ NextRun

Spec ==
  Init /\ [][Next]_vars

\* ------------------------------------------------------------------------
\* Vocabulary of the properties
\* ------------------------------------------------------------------------
\* the base path of the command line and its parts
BasePath ==
  argv[3]

Stem ==
  BaseFilename(BasePath)

Extension ==
  Ext(BasePath)

\* name is exactly stem, '_', one or more of the digits 0-9, ext
ExactNumbered(name) ==
  LET k == Len(name) - Len(Stem) - 1 - Len(Extension)
      mid == SubSeq(name, Len(Stem) + 2, Len(Stem) + 1 + k)
  IN  /\ k >= 1
      /\ \A i \in 1..k : mid[i] \in {"0","1","2","3","4","5","6","7","8","9"}
      /\ name = Stem \o <<"_">> \o mid \o Extension

\* the number in an exactly numbered name
NumberOf(name) ==
  int(SubSeq(name, Len(Stem) + 2, Len(name) - Len(Extension)))

\* one more than the highest number of the exactly numbered names, 1 without any
ExpectedNumber(names) ==
  LET nums == { NumberOf(n) : n \in { n \in names : ExactNumbered(n) } }
  IN  IF nums = {} THEN 1
      ELSE 1 + CHOOSE m \in nums : \A x \in nums : x <= m

\* directory/stem_N.ext
NumberedPath(n) ==
  join(dirname(BasePath), Stem \o <<"_">> \o str(n) \o Extension)

\* the run that is over printed its confirmation
RunDone ==
  /\ pc = "exit"
  /\ stdout # <<>>
  /\ stdout[Len(stdout)].text = DoneLine

\* the blocks of the output file of the current run
OutBlocks ==
  files[Norm(unique_output_file)]

\* the relative path between the fixed parts of a first banner line
RelOf(b) ==
  SubSeq(b.banner1, 28, Len(b.banner1) - 21)

\* the file a block is about
SrcOf(b) ==
  join(argv[2], RelOf(b))

\* the path is a file below the input root whose lower-cased name ends with
\* an allowed extension and none of whose directories is bin, obj or hidden
Collectable(q) ==
  /\ startswith(q, argv[2] \o <<"/">>)
  /\ LET parts == Components(SubSeq(q, Len(argv[2]) + 2, Len(q)))
         name == parts[Len(parts)]
     IN  /\ \E e \in { <<".","c","s">>, <<".","x","a","m","l">>,
                       <<".","c","s","p","r","o","j">>, <<".","s","l","n">>,
                       <<".","j","s","o","n">> } : EndsWithOne(lower(name), e)
         /\ \A k \in 1..(Len(parts) - 1) :
              /\ lower(parts[k]) \notin { <<"b","i","n">>, <<"o","b","j">> }
              /\ parts[k][1] # "."

\* ------------------------------------------------------------------------
\* C1
\* ------------------------------------------------------------------------
\* C1: every result of the resolver is directory/stem_N.ext, where N is one
\* more than the highest number among the listed names that are exactly
\* stem_<digits>.ext, and 1 when no listed name is; names that are not of
\* that form do not change N.
C1_NextNumberOfExactNames ==
  \A i \in 1..Len(resolved) :
    resolved[i].out = NumberedPath(ExpectedNumber(resolved[i].names))

\* ------------------------------------------------------------------------
\* C2
\* ------------------------------------------------------------------------
\* C2: the name the resolver returns differs from every listed name that is
\* exactly stem_<digits>.ext, leading zeros included: the file opened for
\* writing is no existing numbered output.
C2_NoCollision ==
  \A i \in 1..Len(resolved) :
    \A n \in resolved[i].names :
      ExactNumbered(n) => basename(resolved[i].out) # n

\* the resolver returned for a listing that holds a numbered name with
\* leading zeros and one without
C2_Witness ==
  /\ resolved # <<>>
  /\ \E n, m \in resolved[1].names :
       /\ ExactNumbered(n) /\ n[Len(Stem) + 2] = "0"
       /\ ExactNumbered(m) /\ m[Len(Stem) + 2] # "0"

\* ------------------------------------------------------------------------
\* C3
\* ------------------------------------------------------------------------
\* the number in the name of the i-th output
SuffixOf(i) ==
  NumberOf(basename(resolved[i].out))

\* C3 (results): from a directory without numbered outputs the first two runs
\* write stem_1.ext and stem_2.ext, and the outputs of any runs are pairwise
\* distinct with strictly increasing numbers.
C3_Results ==
  /\ ( /\ Len(resolved) >= 2
       /\ \A n \in resolved[1].names : ~ExactNumbered(n) )
     => /\ resolved[1].out = NumberedPath(1)
        /\ resolved[2].out = NumberedPath(2)
  /\ \A i, j \in 1..Len(resolved) :
       i < j => /\ resolved[i].out # resolved[j].out
                /\ SuffixOf(i) < SuffixOf(j)

\* C3 (no overwrite): no step changes the output file of an earlier run.
C3_EarlierKept ==
  \A i \in 1..Len(resolved) :
    (i < Len(resolved) \/ pc # "walk")
      => /\ Norm(resolved[i].out) \in DOMAIN files'
         /\ files'[Norm(resolved[i].out)] = files[Norm(resolved[i].out)]

\* C3: running the tool twice from a directory without numbered outputs
\* gives stem_1.ext then stem_2.ext; k runs write k distinct paths with
\* increasing numbers, and no later run changes an earlier output.
C3_DistinctIncreasingOutputs ==
  /\ []C3_Results
  /\ [][C3_EarlierKept]_vars

\* ------------------------------------------------------------------------
\* Blocks
\* ------------------------------------------------------------------------
\* the first banner line is 20 dashes, ' File: ', a path, a space, 20 dashes
WellFormedBanner(b) ==
  /\ Len(b.banner1) >= 48
  /\ b.banner1 = [k \in 1..20 |-> "-"] \o <<" ","F","i","l","e",":"," ">>
                   \o RelOf(b) \o <<" ">> \o [k \in 1..20 |-> "-"]

\* the directory and the file name of a block's relative path
DirOf(b) ==
  dirname(RelOf(b))

NameOf(b) ==
  basename(RelOf(b))

\* directory d lies below directory e
IsBelow(d, e) ==
  IF e = <<>> THEN d # <<>> ELSE startswith(d, e \o <<"/">>)

\* the blocks of one directory are contiguous and ascending by name, and no
\* block of a sub-directory comes before a block of the directory
InWalkOrder(blocks) ==
  \A i, j \in 1..Len(blocks) :
    i < j =>
      /\ DirOf(blocks[i]) = DirOf(blocks[j]) =>
           /\ StrLess(NameOf(blocks[i]), NameOf(blocks[j]))
           /\ \A k \in i..j : DirOf(blocks[k]) = DirOf(blocks[i])
      /\ ~IsBelow(DirOf(blocks[i]), DirOf(blocks[j]))

\* the number of blocks about file q
BlockCount(blocks, q) ==
  Cardinality({ k \in 1..Len(blocks) : Norm(SrcOf(blocks[k])) = q })

\* the output files written so far
Outputs ==
  { Norm(resolved[i].out) : i \in 1..Len(resolved) }

\* ------------------------------------------------------------------------
\* C4
\* ------------------------------------------------------------------------
\* C4: when a run is over, its output holds exactly one block for every file
\* below the input root whose lower-cased name ends with an allowed extension
\* and that has no directory named bin or obj (in any case) or starting with
\* '.' on its relative path, and no block for any other file.
C4_ExactlyTheCollectableFiles ==
  RunDone =>
    /\ \A k \in 1..Len(OutBlocks) : Norm(SrcOf(OutBlocks[k])) \in DOMAIN files
    /\ \A q \in DOMAIN files :
         BlockCount(OutBlocks, q) = IF Collectable(q) THEN 1 ELSE 0

\* the tree a.cs, A.CS, b.txt, bin/c.cs, .hidden/d.cs was collected into an
\* output outside the tree: the two blocks are A.CS and a.cs
C4_Witness ==
  /\ RunDone
  /\ { q \in DOMAIN files : startswith(q, <<"p","/">>) } =
       { <<"p","/","a",".","c","s">>,
         <<"p","/","A",".","C","S">>,
         <<"p","/","b",".","t","x","t">>,
         <<"p","/","b","i","n","/","c",".","c","s">>,
         <<"p","/",".","h","i","d","d","e","n","/","d",".","c","s">> }
  /\ Len(OutBlocks) = 2
  /\ { RelOf(OutBlocks[k]) : k \in 1..2 } = { <<"a",".","c","s">>, <<"A",".","C","S">> }

\* ------------------------------------------------------------------------
\* C5
\* ------------------------------------------------------------------------
\* the body of block b of the open output is what reading its file gives
NormalBody(b) ==
  LET src == Norm(SrcOf(b))
  IN  IF src = Norm(unique_output_file)
      THEN /\ Len(b.text) <= Len(OutBlocks)
           /\ b.text = SubSeq(OutBlocks, 1, Len(b.text))
      ELSE b.text = files[src]

\* C5: a file whose reading fails gets both banner lines and, as its body,
\* the single error line; every other file keeps its normal content, and when
\* the run is over the blocks are those of all collectable files, once each
\* and in the order of the walk, as without any failure.
C5_ReadErrorsStayLocal ==
  /\ unique_output_file # <<>> =>
       \A k \in 1..Len(OutBlocks) :
         LET b == OutBlocks[k]
         IN  /\ WellFormedBanner(b)
             /\ b.banner2 # <<>>
             /\ IF Norm(SrcOf(b)) \in undecodable
                THEN b.text = << [line |-> "Error reading file: {e}"] >>
                ELSE NormalBody(b)
  /\ RunDone =>
       /\ \A q \in DOMAIN files :
            Collectable(q) => BlockCount(OutBlocks, q) = 1
       /\ Len(OutBlocks) = Cardinality({ q \in DOMAIN files : Collectable(q) })
       /\ InWalkOrder(OutBlocks)

\* a run is over in which the block of an unreadable file is followed by a
\* block with the content of a readable one
C5_Witness ==
  /\ RunDone
  /\ \E i, j \in 1..Len(OutBlocks) :
       /\ i < j
       /\ Norm(SrcOf(OutBlocks[i])) \in undecodable
       /\ Len(OutBlocks[i].text) = 1
       /\ Norm(SrcOf(OutBlocks[j])) \notin undecodable
       /\ OutBlocks[j].text = files[Norm(SrcOf(OutBlocks[j]))]

\* ------------------------------------------------------------------------
\* C6
\* ------------------------------------------------------------------------
\* the step taken with two arguments and an input path that is no directory
C6_NotDirStep ==
  (pc = "main" /\ Len(argv) = 3 /\ Norm(argv[2]) \notin dirs)
    => /\ pc' = "exit"
       /\ exit_code' = 1
       /\ stdout' = Append(stdout, [text |-> NotFoundLine, arg |-> argv[2]])
       /\ dirs' = dirs
       /\ files' = files
       /\ resolved' = resolved
       /\ unique_output_file' = <<>>

\* C6: with two arguments and an input path that is not a directory the
\* program prints the error line and exits with status 1 before the resolver
\* runs: no directory is created and no file is created or truncated.
C6_NotADirectoryExits1 ==
  [][C6_NotDirStep]_vars

\* the program exited with status 1 for an input that is no directory, and
\* the missing dump directory was not created
C6_Witness ==
  /\ pc = "exit"
  /\ exit_code = 1
  /\ Len(argv) = 3
  /\ Norm(argv[2]) \notin dirs
  /\ dirname(argv[3]) \notin dirs
  /\ resolved = <<>>
  /\ Len(stdout) = 1

\* ------------------------------------------------------------------------
\* C7
\* ------------------------------------------------------------------------
\* C7 as stated: with an argument count other than two the program prints the
\* usage line and two example lines, exits with status 0 and runs neither the
\* resolver nor the collector.
C7_UsageAndTwoExamples ==
  Len(argv) # 3 =>
    /\ pc \in {"main", "exit"}
    /\ resolved = <<>>
    /\ pc = "exit" =>
         /\ exit_code = 0
         /\ Len(stdout) = 3
         /\ stdout[1].text = UsageLine
         /\ stdout[2].text = ExampleLine
         /\ stdout[3].text = ExampleLine

\* C7 (amended): with an argument count other than two the program prints the
\* usage line and one example line, exits with status 0 and runs neither the
\* resolver nor the collector.
C7_UsageAndOneExample ==
  Len(argv) # 3 =>
    /\ pc \in {"main", "exit"}
    /\ resolved = <<>>
    /\ unique_output_file = <<>>
    /\ pc = "exit" =>
         /\ exit_code = 0
         /\ Len(stdout) = 2
         /\ stdout[1].text = "Usage: python cs_dump.py <input_folder> <output_file>"
         /\ stdout[2].text =
              "Example: python cs_dump.py C:\\Projects\\MyWpfApp C:\\Dumps\\output.txt"

\* the program exited after the usage message for too many arguments
C7_Witness ==
  /\ pc = "exit"
  /\ Len(argv) > 3
  /\ Len(stdout) = 2
  /\ exit_code = 0

\* ------------------------------------------------------------------------
\* C8
\* ------------------------------------------------------------------------
\* C8: in every block of every output the second banner line is 48 +
\* len(relative path) dashes and as long as the first banner line.
C8_BannerLengths ==
  \A o \in Outputs :
    \A k \in 1..Len(files[o]) :
      LET b == files[o][k]
      IN  /\ WellFormedBanner(b)
          /\ Norm(SrcOf(b)) \in DOMAIN files
          /\ b.banner2 = [i \in 1..(48 + Len(RelOf(b))) |-> "-"]
          /\ Len(b.banner2) = Len(b.banner1)

\* an output holds the block of s/e.cs, whose banner lines are 54 long
C8_Witness ==
  \E o \in Outputs :
    \E k \in 1..Len(files[o]) :
      /\ RelOf(files[o][k]) = <<"s","/","e",".","c","s">>
      /\ Len(files[o][k].banner2) = 54

\* ------------------------------------------------------------------------
\* C9
\* ------------------------------------------------------------------------
\* C9: at every moment the blocks of the files directly in one directory are
\* contiguous, ascending by file name (code point order), and come before
\* the blocks of the files of its sub-directories, whatever the order of the
\* directory listing.
C9_SortedTopDown ==
  \A o \in Outputs : InWalkOrder(files[o])

\* a finished output starts with A.CS, then a.cs, and ends with s/e.cs
C9_Witness ==
  /\ RunDone
  /\ Len(OutBlocks) >= 3
  /\ RelOf(OutBlocks[1]) = <<"A",".","C","S">>
  /\ RelOf(OutBlocks[2]) = <<"a",".","c","s">>
  /\ RelOf(OutBlocks[Len(OutBlocks)]) = <<"s","/","e",".","c","s">>

\* ------------------------------------------------------------------------
\* C10
\* ------------------------------------------------------------------------
\* C10: the output file exists from the start of the walk, and when a run is
\* over its output holds a block for itself and for every earlier output of
\* the same base path that is a collectable file of the input tree.
C10_OutputCollectsItself ==
  /\ pc = "walk" => Norm(unique_output_file) \in DOMAIN files
  /\ RunDone =>
       \A i \in 1..Len(resolved) :
         Collectable(Norm(resolved[i].out)) =>
           \E k \in 1..Len(OutBlocks) :
             Norm(SrcOf(OutBlocks[k])) = Norm(resolved[i].out)

\* the second run with a base path in the input root is over: its output
\* holds a block for the first output and one for itself
C10_Witness ==
  /\ RunDone
  /\ Len(resolved) = 2
  /\ Collectable(Norm(unique_output_file))
  /\ BlockCount(OutBlocks, Norm(resolved[1].out)) = 1
  /\ BlockCount(OutBlocks, Norm(resolved[2].out)) = 1

====
